---- MODULE Spec2Model ----
(***************************************************************************)
(* Model of src/src/dailystreaks.py: the day aggregator                    *)
(* (aggregate_push_commits_by_day), the source reconciler                  *)
(* (merge_historical_with_recent), the streak calculator (compute_streaks) *)
(* and the paginated event fetch loop (fetch_recent_push_events).          *)
(*                                                                         *)
(* Calendar dates (dt.date) are modelled by their day ordinal, an integer: *)
(* (a - b).days is a - b and d - timedelta(days=1) is d - 1.  An optional  *)
(* value (dt.date | None) is a tuple: <<>> is None and <<d>> is the date   *)
(* d.  A dict is a function whose DOMAIN is the key set.                   *)
(***************************************************************************)
EXTENDS Integers, Sequences, FiniteSets

VARIABLES
    pc,                    \* position of the function under execution
    contributions_by_day,  \* compute_streaks: argument
    today,                 \* compute_streaks: argument
    stats,                 \* compute_streaks: returned StreakStats (<<>> before the call)
    recent_events,         \* aggregate_push_commits_by_day: argument `events`
    timezone,              \* aggregate_push_commits_by_day: argument, UTC offset in hours
    push_counts,           \* aggregate_push_commits_by_day: returned dict
    historical_days,       \* merge_historical_with_recent: argument
    recent_push_days,      \* merge_historical_with_recent: argument
    merged_days,           \* merge_historical_with_recent: returned dict
    args,                  \* fetch_recent_push_events: the caller's max_pages, lookback_days
    max_pages,             \* fetch_recent_push_events: local, the clamped page bound
    cutoff,                \* fetch_recent_push_events: local, start of the lookback window
    next_url,              \* fetch_recent_push_events: local, None or the URL to request
    page_count,            \* fetch_recent_push_events: local
    events,                \* fetch_recent_push_events: local, the list returned
    requests,              \* number of urlopen calls issued so far
    response,              \* the server's answer to the latest request
    served                 \* all events the server sent in its answers so far

vars == <<pc, contributions_by_day, today, stats, recent_events, timezone,
          push_counts, historical_days, recent_push_days, merged_days,
          args, max_pages, cutoff, next_url, page_count, events, requests,
          response, served>>

streakVars == <<contributions_by_day, today, stats>>
aggVars == <<recent_events, timezone, push_counts>>
mergeVars == <<historical_days, recent_push_days, merged_days>>
fetchVars == <<args, max_pages, cutoff, next_url, page_count, events, requests,
               response, served>>

(***************************************************************************)
(* Bounds of the model.                                                    *)
(***************************************************************************)
MaxDay == 5          \* calendar days 1..MaxDay carry contribution entries
MaxCount == 2        \* largest per-day count of a ContributionMap

MaxEvents == 3       \* longest sequence of activity records aggregated
MaxCommits == 2      \* largest number of commits of one push payload
MaxOffset == 2       \* largest magnitude of the UTC offset, in hours
MaxMergeSpan == 2    \* number of calendar days the two merged maps range over
MaxMergeCount == 3   \* largest per-day count of a merged map

Days == 1..MaxDay
Counts == (0 - 1)..MaxCount
Todays == 0..(MaxDay + 2)

None == <<>>
Some(d) == <<d>>

EmptyMap == <<>>
Maps(days, counts) == UNION {[S -> counts] : S \in SUBSET days}

\* dict.get(key, default)
Get(m, key, default) == IF key \in DOMAIN m THEN m[key] ELSE default

Max2(a, b) == IF a >= b THEN a ELSE b
MinOf(S) == CHOOSE x \in S : \A y \in S : x <= y
MaxOf(S) == CHOOSE x \in S : \A y \in S : x >= y

RECURSIVE SumOver(_, _)
SumOver(m, S) ==
    IF S = {} THEN 0
    ELSE LET d == MinOf(S) IN m[d] + SumOver(m, S \ {d})

(***************************************************************************)
(* compute_streaks                                                         *)
(***************************************************************************)
\* the filter `count > 0` of the two comprehensions
IsActive(count) == count > 0

RECURSIVE SortedSeq(_)
SortedSeq(S) ==
    IF S = {} THEN <<>>
    ELSE LET d == MinOf(S) IN <<d>> \o SortedSeq(S \ {d})

\* active_days = sorted(day for day, count in ... if count > 0)
ActiveDays(m) == SortedSeq({d \in DOMAIN m : IsActive(m[d])})

\* total_contributions = sum(count for count in ....values() if count > 0)
TotalContributions_all(m) == SumOver(m, DOMAIN m)
TotalContributions(m) == SumOver(m, {d \in DOMAIN m : m[d] > 0})

\* run_len = (prev - run_start).days + 1
RunLen(st) == st.prev - st.run_start + 1

\* if run_len > longest_len: record the run as the longest
CloseRun_ge(st) ==
    IF RunLen(st) >= st.longest_len
    THEN [st EXCEPT !.longest_len = RunLen(st),
                    !.longest_start = st.run_start,
                    !.longest_end = st.prev]
    ELSE st
CloseRun(st) ==
    IF RunLen(st) > st.longest_len
    THEN [st EXCEPT !.longest_len = RunLen(st),
                    !.longest_start = st.run_start,
                    !.longest_end = st.prev]
    ELSE st

\* the state before the scan
ScanInit(active_days) ==
    [longest_len |-> 1,
     longest_start |-> active_days[1],
     longest_end |-> active_days[1],
     run_start |-> active_days[1],
     prev |-> active_days[1]]

\* one iteration of `for day in active_days[1:]`
ScanStep(st, day) ==
    IF day - st.prev = 1
    THEN [st EXCEPT !.prev = day]
    ELSE [CloseRun(st) EXCEPT !.run_start = day, !.prev = day]

RECURSIVE ScanFrom(_, _, _)
ScanFrom(active_days, i, st) ==
    IF i > Len(active_days) THEN st
    ELSE ScanFrom(active_days, i + 1, ScanStep(st, active_days[i]))

\* the final run check after the loop
FinalRunCheck_skipped(st) == st
FinalRunCheck(st) == CloseRun(st)

\* if (today - latest).days > 1
IsStale_abs(today_, latest) == today_ - latest > 1 \/ latest - today_ > 1
IsStale_ge(today_, latest) == today_ - latest >= 1
IsStale(today_, latest) == today_ - latest > 1

\* while current_start - timedelta(days=1) in active_set: current_start -= 1 day
RECURSIVE WalkBack(_, _)
WalkBack(current_start, active_set) ==
    IF current_start - 1 \in active_set
    THEN WalkBack(current_start - 1, active_set)
    ELSE current_start

\* current_len = (current_end - current_start).days + 1
CurrentLen_exclusive(current_start, current_end) == current_end - current_start
CurrentLen(current_start, current_end) == current_end - current_start + 1

StreakStats(total, cur, long, cs, ce, ls, le) ==
    [total_contributions |-> total,
     current_streak |-> cur,
     longest_streak |-> long,
     current_start |-> cs,
     current_end |-> ce,
     longest_start |-> ls,
     longest_end |-> le]

compute_streaks(m, today_) ==
    LET active_days == ActiveDays(m) IN
    IF active_days = <<>>
    THEN StreakStats(0, 0, 0, None, None, None, None)
    ELSE
      LET total == TotalContributions(m)
          st == FinalRunCheck(ScanFrom(active_days, 2, ScanInit(active_days)))
          latest == active_days[Len(active_days)]
          active_set == {active_days[i] : i \in 1..Len(active_days)}
      IN  IF IsStale(today_, latest)
          THEN StreakStats(total, 0, st.longest_len, None, None,
                           Some(st.longest_start), Some(st.longest_end))
          ELSE
            LET current_end == latest
                current_start == WalkBack(latest, active_set)
            IN  StreakStats(total, CurrentLen(current_start, current_end),
                            st.longest_len,
                            Some(current_start), Some(current_end),
                            Some(st.longest_start), Some(st.longest_end))

IdleStreaks == contributions_by_day = EmptyMap /\ today = 0 /\ stats = None
IdleAgg == recent_events = <<>> /\ timezone = 0 /\ push_counts = EmptyMap
IdleMerge == historical_days = EmptyMap /\ recent_push_days = EmptyMap
             /\ merged_days = EmptyMap
IdleFetch == /\ args = <<>> /\ max_pages = 0 /\ cutoff = 0 /\ next_url = None
             /\ page_count = 0 /\ events = <<>> /\ requests = 0
             /\ response = <<>> /\ served = <<>>

InitStreaks ==
    /\ pc = "compute_streaks"
    /\ contributions_by_day \in Maps(Days, Counts)
    /\ today \in Todays
    /\ stats = None
    /\ IdleAgg
    /\ IdleMerge
    /\ IdleFetch

\* stats = compute_streaks(merged_days, today)
ComputeStreaks ==
    /\ pc = "compute_streaks"
    /\ stats' = compute_streaks(contributions_by_day, today)
    /\ pc' = "streaks_done"
    /\ UNCHANGED <<contributions_by_day, today, aggVars, mergeVars, fetchVars>>

NextStreaks == ComputeStreaks

SpecStreaks == InitStreaks /\ [][NextStreaks]_vars

(***************************************************************************)
(* aggregate_push_commits_by_day                                           *)
(*                                                                         *)
(* An event is [type, commits, created_at]: commits is the list            *)
(* payload.commits, created_at is None or a string.  A string is either    *)
(* an ISO-8601 timestamp [day, hour, suffix] (calendar day, hour of the    *)
(* day, UTC designator "Z" or a numeric offset) or a text that is not one. *)
(***************************************************************************)
\* what a call that can raise yields: the value, or the exception
Returned(value) == [raised |-> FALSE, value |-> value]
Raised(exception) == [raised |-> TRUE, exception |-> exception]

\* created_at.replace("Z", "+00:00")
ReplaceZ(s) ==
    IF "suffix" \in DOMAIN s /\ s.suffix = "Z"
    THEN [s EXCEPT !.suffix = "+00:00"]
    ELSE s

\* the UTC offset, in hours, that a numeric offset suffix denotes
SuffixHours(suffix) ==
    CASE suffix = "+00:00" -> 0
      [] suffix = "+01:00" -> 1
      [] suffix = "-01:00" -> 0 - 1

\* dt.datetime.fromisoformat: the instant, in hours since 00:00 UTC of day 0,
\* or ValueError for a string that is no ISO-8601 timestamp
FromIsoFormat(s) ==
    IF "day" \in DOMAIN s /\ s.suffix \in {"+00:00", "+01:00", "-01:00"}
    THEN Returned(s.day * 24 + s.hour - SuffixHours(s.suffix))
    ELSE Raised("ValueError")

\* timestamp.astimezone(timezone).date()
LocalDay(timestamp, tz) == (timestamp + tz) \div 24

\* push_counts[local_day] = push_counts.get(local_day, 0) + commit_count
Accumulate_overwrite(counts, local_day, commit_count) ==
    [d \in DOMAIN counts \cup {local_day} |->
        IF d = local_day THEN commit_count ELSE counts[d]]
Accumulate(counts, local_day, commit_count) ==
    [d \in DOMAIN counts \cup {local_day} |->
        IF d = local_day THEN Get(counts, local_day, 0) + commit_count
        ELSE counts[d]]

\* the body of `for event in events`: the dict after the event, or the
\* exception that leaves the loop
AggregateEvent(counts, event, tz) ==
    IF event.type # "PushEvent" THEN Returned(counts)
    ELSE IF Len(event.commits) <= 0 THEN Returned(counts)
    ELSE IF event.created_at = None THEN Returned(counts)
    ELSE LET timestamp == FromIsoFormat(ReplaceZ(event.created_at[1]))
         IN  IF timestamp.raised THEN timestamp
             ELSE Returned(Accumulate(counts, LocalDay(timestamp.value, tz),
                                      Len(event.commits)))

RECURSIVE AggregateFrom(_, _, _, _)
AggregateFrom(events_, i, counts, tz) ==
    IF i > Len(events_) THEN Returned(counts)
    ELSE LET after == AggregateEvent(counts, events_[i], tz)
         IN  IF after.raised THEN after
             ELSE AggregateFrom(events_, i + 1, after.value, tz)

\* the returned dict, or the exception the call raises
aggregate_push_commits_by_day(events_, tz) == AggregateFrom(events_, 1, EmptyMap, tz)

CommitLists == {[i \in 1..n |-> "commit"] : n \in 0..MaxCommits}

LateStamp == [day |-> 1, hour |-> 23, suffix |-> "Z"]
EarlyStamp == [day |-> 2, hour |-> 1, suffix |-> "+01:00"]
Malformed == [text |-> "not-a-date"]

CreatedAts == {None, Some(Malformed), Some(LateStamp), Some(EarlyStamp)}

ActivityRecords ==
    [type : {"PushEvent"}, commits : CommitLists, created_at : CreatedAts]
    \cup [type : {"WatchEvent"}, commits : {<<"commit">>}, created_at : {Some(LateStamp)}]

SeqsUpTo(S, n) == UNION {[1..k -> S] : k \in 0..n}

Timezones == {0 - MaxOffset, 0, MaxOffset}

InitAggregate ==
    /\ pc = "aggregate"
    /\ recent_events \in SeqsUpTo(ActivityRecords, MaxEvents)
    /\ timezone \in Timezones
    /\ push_counts = EmptyMap
    /\ IdleStreaks
    /\ IdleMerge
    /\ IdleFetch

\* recent_push_days = aggregate_push_commits_by_day(events, timezone), returning
AggregateReturns ==
    /\ pc = "aggregate"
    /\ ~aggregate_push_commits_by_day(recent_events, timezone).raised
    /\ push_counts' = aggregate_push_commits_by_day(recent_events, timezone).value
    /\ pc' = "aggregate_done"
    /\ UNCHANGED <<recent_events, timezone, streakVars, mergeVars, fetchVars>>

\* the same call, left by the ValueError of fromisoformat
AggregateRaises ==
    /\ pc = "aggregate"
    /\ aggregate_push_commits_by_day(recent_events, timezone).raised
    /\ pc' = "aggregate_raised"
    /\ UNCHANGED <<aggVars, streakVars, mergeVars, fetchVars>>

NextAggregate == AggregateReturns \/ AggregateRaises

SpecAggregate == InitAggregate /\ [][NextAggregate]_vars

(***************************************************************************)
(* merge_historical_with_recent                                            *)
(***************************************************************************)
\* merged[day] = max(merged.get(day, 0), push_count)
MergeEntry_sum(merged, day, push_count) ==
    [d \in DOMAIN merged \cup {day} |->
        IF d = day THEN Get(merged, day, 0) + push_count ELSE merged[d]]
MergeEntry(merged, day, push_count) ==
    [d \in DOMAIN merged \cup {day} |->
        IF d = day THEN Max2(Get(merged, day, 0), push_count) ELSE merged[d]]

\* for day, push_count in recent_push_days.items()
RECURSIVE MergeFrom(_, _, _)
MergeFrom(merged, recent, keys) ==
    IF keys = {} THEN merged
    ELSE LET day == MinOf(keys)
         IN  MergeFrom(MergeEntry(merged, day, recent[day]), recent, keys \ {day})

\* merged = dict(historical_days), then the loop
merge_historical_with_recent(historical, recent) ==
    MergeFrom(historical, recent, DOMAIN recent)

MergeDays == MaxDay..(MaxDay + MaxMergeSpan - 1)
MergeCounts == (0 - 1)..MaxMergeCount

InitMerge ==
    /\ pc = "merge"
    /\ historical_days \in Maps(MergeDays, MergeCounts)
    /\ recent_push_days \in Maps(MergeDays, MergeCounts)
    /\ merged_days = EmptyMap
    /\ IdleStreaks
    /\ IdleAgg
    /\ IdleFetch

\* merged_days = merge_historical_with_recent(historical_days, recent_push_days)
Merge ==
    /\ pc = "merge"
    /\ merged_days' = merge_historical_with_recent(historical_days, recent_push_days)
    /\ pc' = "merge_done"
    /\ UNCHANGED <<historical_days, recent_push_days, streakVars, aggVars, fetchVars>>

NextMerge == Merge

SpecMerge == InitMerge /\ [][NextMerge]_vars

(***************************************************************************)
(* fetch_recent_push_events                                                *)
(*                                                                         *)
(* The server answers each request with a page (a JSON list of events and  *)
(* a Link header), an HTTP error or a network error.  A Link header is     *)
(* None or the list of its comma-separated chunks; a chunk is [rel, start, *)
(* end, url], where start and end are the positions find("<") and          *)
(* find(">") return (-1 when absent) and url is the text between them.     *)
(***************************************************************************)
PageCap == 10

Min2(a, b) == IF a <= b THEN a ELSE b

\* max_pages = max(1, min(max_pages, 10))
ClampPages_uncapped(mp) == Max2(1, mp)
ClampPages(mp) == Max2(1, Min2(mp, PageCap))

\* lookback_days = max(1, lookback_days)
ClampLookback(days) == Max2(1, days)

\* dt.datetime.now(dt.timezone.utc), in hours since 00:00 UTC of day 0
UtcNow == 3 * 24

FirstUrl == "users/events/public?per_page=100"

RECURSIVE NextUrlFrom(_, _)
NextUrlFrom(chunks, i) ==
    IF i > Len(chunks) THEN None
    ELSE LET part == chunks[i]
         IN  IF part.rel # "next" THEN NextUrlFrom(chunks, i + 1)
             ELSE IF part.start # 0 - 1 /\ part.end # 0 - 1 /\ part.end > part.start
                  THEN Some(part.url)
                  ELSE NextUrlFrom(chunks, i + 1)

parse_next_url(link_header) ==
    IF link_header = None \/ link_header[1] = <<>> THEN None
    ELSE NextUrlFrom(link_header[1], 1)

\* the loop computing `oldest` over a page: None, the earliest timestamp of
\* the events that carry one, or the ValueError of fromisoformat
RECURSIVE OldestFrom(_, _, _)
OldestFrom(payload, i, oldest) ==
    IF i > Len(payload) THEN Returned(oldest)
    ELSE LET created_at == payload[i].created_at
         IN  IF created_at = None THEN OldestFrom(payload, i + 1, oldest)
             ELSE LET ts == FromIsoFormat(ReplaceZ(created_at[1]))
                  IN  IF ts.raised THEN ts
                      ELSE OldestFrom(payload, i + 1,
                                      IF oldest = None THEN Some(ts.value)
                                      ELSE Some(Min2(oldest[1], ts.value)))

\* if oldest and oldest < cutoff: break
PageIsOld(oldest, cutoff_) == oldest # None /\ oldest[1] < cutoff_

\* exc.code == 422 and "pagination is limited" in msg.lower()
IsPaginationLimit(err) ==
    err.code = 422 /\ err.msg \in {"Pagination is limited for this resource."}

\* while next_url and page_count < max_pages
LoopTest(next_url_, page_count_, max_pages_) ==
    next_url_ # None /\ page_count_ < max_pages_

PushOf(created_at) ==
    [type |-> "PushEvent", commits |-> <<"commit">>, created_at |-> created_at]

Pages ==
    {<<>>,
     <<PushOf(None)>>,
     <<PushOf(Some(EarlyStamp)), PushOf(None), PushOf(Some(LateStamp))>>,
     <<PushOf(Some(Malformed))>>}

NextChunk == [rel |-> "next", start |-> 0, end |-> 40, url |-> "users/events/public?page=n"]
LastChunk == [rel |-> "last", start |-> 0, end |-> 40, url |-> "users/events/public?page=z"]
BrokenChunk == [rel |-> "next", start |-> 0 - 1, end |-> 0 - 1, url |-> ""]

LinkHeaders ==
    {None, Some(<<>>), Some(<<LastChunk>>), Some(<<LastChunk, NextChunk>>),
     Some(<<BrokenChunk>>)}

HttpErrors ==
    {[code |-> 422, msg |-> "Pagination is limited for this resource."],
     [code |-> 422, msg |-> "Validation Failed"],
     [code |-> 403, msg |-> "API rate limit exceeded"]}

PageArgs == {0 - 1, 0, 1, 2, PageCap - 1, PageCap, PageCap + 1}
LookbackArgs == {0, 1, 2}

InitFetch ==
    /\ pc = "fetch"
    /\ args \in [max_pages : PageArgs, lookback_days : LookbackArgs]
    /\ max_pages = 0
    /\ cutoff = 0
    /\ next_url = None
    /\ page_count = 0
    /\ events = <<>>
    /\ requests = 0
    /\ response = <<>>
    /\ served = <<>>
    /\ IdleStreaks
    /\ IdleAgg
    /\ IdleMerge

\* the statements before the loop, and the first test of the loop condition
FetchEnter ==
    /\ pc = "fetch"
    /\ max_pages' = ClampPages(args.max_pages)
    /\ cutoff' = UtcNow - 24 * ClampLookback(args.lookback_days)
    /\ next_url' = Some(FirstUrl)
    /\ events' = <<>>
    /\ page_count' = 0
    /\ pc' = IF LoopTest(Some(FirstUrl), 0, ClampPages(args.max_pages))
             THEN "fetch_loop" ELSE "fetch_returned"
    /\ UNCHANGED <<args, requests, response, served, streakVars, aggVars, mergeVars>>

\* one iteration whose request is answered with a page
FetchPage ==
    /\ pc = "fetch_loop"
    /\ \E payload \in Pages, link_header \in LinkHeaders :
          LET oldest == OldestFrom(payload, 1, None)
              url == parse_next_url(link_header)
          IN  /\ requests' = requests + 1
              /\ response' = [kind |-> "page", payload |-> payload, link |-> link_header]
              /\ served' = served \o payload
              /\ page_count' = page_count + 1
              /\ IF payload = <<>>
                 THEN /\ pc' = "fetch_returned"
                      /\ UNCHANGED <<events, next_url>>
                 ELSE /\ events' = events \o payload
                      /\ next_url' = url
                      /\ pc' = IF oldest.raised THEN "fetch_raised"
                               ELSE IF PageIsOld(oldest.value, cutoff) THEN "fetch_returned"
                               ELSE IF LoopTest(url, page_count + 1, max_pages)
                                    THEN "fetch_loop"
                                    ELSE "fetch_returned"
    /\ UNCHANGED <<args, max_pages, cutoff, streakVars, aggVars, mergeVars>>

\* one iteration whose request is answered with the 422 of the pagination limit
FetchPaginationLimit ==
    /\ pc = "fetch_loop"
    /\ \E err \in HttpErrors :
          /\ IsPaginationLimit(err)
          /\ response' = [kind |-> "http_error", error |-> err]
    /\ requests' = requests + 1
    /\ pc' = "fetch_returned"
    /\ UNCHANGED <<args, max_pages, cutoff, next_url, page_count, events, served,
                   streakVars, aggVars, mergeVars>>

\* one iteration whose request is answered with any other HTTP error
FetchHTTPError ==
    /\ pc = "fetch_loop"
    /\ \E err \in HttpErrors :
          /\ ~IsPaginationLimit(err)
          /\ response' = [kind |-> "http_error", error |-> err]
    /\ requests' = requests + 1
    /\ pc' = "fetch_raised"
    /\ UNCHANGED <<args, max_pages, cutoff, next_url, page_count, events, served,
                   streakVars, aggVars, mergeVars>>

\* one iteration whose request fails in the network (or after the 30 s timeout)
FetchURLError ==
    /\ pc = "fetch_loop"
    /\ response' = [kind |-> "url_error"]
    /\ requests' = requests + 1
    /\ pc' = "fetch_raised"
    /\ UNCHANGED <<args, max_pages, cutoff, next_url, page_count, events, served,
                   streakVars, aggVars, mergeVars>>

NextFetch == FetchEnter \/ FetchPage \/ FetchPaginationLimit \/ FetchHTTPError \/ FetchURLError

\* every request is answered or fails within its timeout, and the function
\* runs on a single thread, so an enabled step is eventually taken
SpecFetch == InitFetch /\ [][NextFetch]_vars /\ WF_vars(NextFetch)

(***************************************************************************)
(* Properties of aggregate_push_commits_by_day.                            *)
(***************************************************************************)
AggregateLeft == pc \in {"aggregate_done", "aggregate_raised"}

\* the hour, counted from 00:00 UTC of day 0, that a timestamp string denotes
UtcHour(stamp) ==
    stamp.day * 24 + stamp.hour
        - (IF stamp.suffix = "+01:00" THEN 1 ELSE IF stamp.suffix = "-01:00" THEN 0 - 1 ELSE 0)

Parseable(created_at) ==
    created_at # None /\ DOMAIN created_at[1] = {"day", "hour", "suffix"}

\* the record counts: a push with at least one commit
Counted(e) == e.type = "PushEvent" /\ Len(e.commits) >= 1

\* the record falls on local date d at UTC offset tz
FallsOn(e, tz, d) ==
    /\ Parseable(e.created_at)
    /\ 24 * d <= UtcHour(e.created_at[1]) + tz
    /\ UtcHour(e.created_at[1]) + tz < 24 * (d + 1)

\* the sum of the commit counts of the counted records i.. that fall on d
RECURSIVE CommitSum(_, _, _, _)
CommitSum(records, tz, d, i) ==
    IF i > Len(records) THEN 0
    ELSE (IF Counted(records[i]) /\ FallsOn(records[i], tz, d)
          THEN Len(records[i].commits) ELSE 0)
         + CommitSum(records, tz, d, i + 1)

LocalDates == 0..3

\* the day -> count map of the records, by the definition of the aggregation
DaySums(records, tz) ==
    [d \in {x \in LocalDates : \E i \in 1..Len(records) :
                Counted(records[i]) /\ FallsOn(records[i], tz, x)}
        |-> CommitSum(records, tz, d, 1)]

\* a counted push whose timestamp is missing or cannot be parsed
BadRecord(e) == Counted(e) /\ ~Parseable(e.created_at)
GoodRecord(e) == ~BadRecord(e)

\* C2: the aggregation never aborts on a bad record: a push with positive
\* commit count whose timestamp is missing or cannot be parsed is skipped, and
\* the returned map is the aggregation of the remaining records.
C2_SkipsBadRecords ==
    AggregateLeft =>
        /\ pc = "aggregate_done"
        /\ push_counts = DaySums(SelectSeq(recent_events, GoodRecord), timezone)

Permutations(n) ==
    {p \in [1..n -> 1..n] : \A i, j \in 1..n : i # j => p[i] # p[j]}

Permuted(records, p) == [i \in 1..Len(records) |-> records[p[i]]]

AllWellFormed(records) ==
    \A i \in 1..Len(records) : Parseable(records[i].created_at)

\* C8: for well-formed records and a fixed UTC offset, every permutation of
\* the records aggregates to the same map, in which each date's count is the
\* sum of the commit counts of the PushEvent records with positive commit
\* count that fall on that local date.
C8_OrderIndependent ==
    (AggregateLeft /\ AllWellFormed(recent_events)) =>
        /\ pc = "aggregate_done"
        /\ push_counts = DaySums(recent_events, timezone)
        /\ \A p \in Permutations(Len(recent_events)) :
              aggregate_push_commits_by_day(Permuted(recent_events, p), timezone)
                  = Returned(push_counts)

C8_Witness ==
    /\ pc = "aggregate_done"
    /\ AllWellFormed(recent_events)
    /\ Len(recent_events) >= 3
    /\ \E i, j \in 1..Len(recent_events) :
          /\ Counted(recent_events[i]) /\ Counted(recent_events[j])
          /\ Len(recent_events[i].commits) # Len(recent_events[j].commits)
          /\ recent_events[i].created_at # recent_events[j].created_at
    /\ \E d \in DOMAIN push_counts : push_counts[d] >= 3

(***************************************************************************)
(* Properties of merge_historical_with_recent.                             *)
(***************************************************************************)
NonNegative(m) == \A d \in DOMAIN m : m[d] >= 0

C5Baseline == [d \in {5} |-> 3]
C5Overlay == [d \in {5, 6} |-> IF d = 5 THEN 1 ELSE 2]
C5Merged == [d \in {5, 6} |-> IF d = 5 THEN 3 ELSE 2]

\* C5: for maps with non-negative counts the merged map has exactly the union
\* of the two key sets, and each date's count is the maximum of the baseline
\* count (0 if absent) and the overlay count (0 if absent): not their sum, and
\* not the overlay value when the baseline value is larger.  Baseline
\* {Jan 5: 3} and overlay {Jan 5: 1, Jan 6: 2} give {Jan 5: 3, Jan 6: 2}.
C5_MaxPerDay ==
    (pc = "merge_done" /\ NonNegative(historical_days) /\ NonNegative(recent_push_days)) =>
        /\ DOMAIN merged_days = DOMAIN historical_days \cup DOMAIN recent_push_days
        /\ \A d \in DOMAIN merged_days :
              LET b == Get(historical_days, d, 0)
                  o == Get(recent_push_days, d, 0)
              IN  /\ merged_days[d] >= b
                  /\ merged_days[d] >= o
                  /\ merged_days[d] \in {b, o}
                  /\ (b > 0 /\ o > 0) => merged_days[d] # b + o
                  /\ b > o => merged_days[d] # o
        /\ (historical_days = C5Baseline /\ recent_push_days = C5Overlay)
              => merged_days = C5Merged

C5_Witness ==
    /\ pc = "merge_done"
    /\ historical_days = C5Baseline
    /\ recent_push_days = C5Overlay
    /\ merged_days = C5Merged

(***************************************************************************)
(* Properties of fetch_recent_push_events.                                 *)
(***************************************************************************)
FetchLeft == pc \in {"fetch_returned", "fetch_raised"}

\* min(max(max_pages, 1), 10) of the caller's max_pages
PageBound ==
    LET atLeastOne == IF args.max_pages >= 1 THEN args.max_pages ELSE 1
    IN  IF atLeastOne <= PageCap THEN atLeastOne ELSE PageCap

\* the Link header carries a rel="next" chunk with a bracketed URL
HasNextLink(link) ==
    /\ link # None
    /\ \E i \in 1..Len(link[1]) :
          link[1][i].rel = "next" /\ link[1][i].start >= 0
              /\ link[1][i].end > link[1][i].start

\* some event of the page is older than the lookback window
OlderThanLookback(payload) ==
    \E i \in 1..Len(payload) :
        /\ Parseable(payload[i].created_at)
        /\ UtcHour(payload[i].created_at[1])
              < UtcNow - 24 * (IF args.lookback_days >= 1 THEN args.lookback_days ELSE 1)

IsPage == response # <<>> /\ response.kind = "page"

\* the conditions that stop the loop, on the latest answer
StopsLoop ==
    \/ IsPage /\ response.payload = <<>>
    \/ IsPage /\ ~HasNextLink(response.link)
    \/ IsPage /\ OlderThanLookback(response.payload)
    \/ response # <<>> /\ response.kind = "http_error" /\ response.error.code = 422
          /\ response.error.msg = "Pagination is limited for this resource."
    \/ page_count = PageBound

C10_Bounded ==
    (pc \in {"fetch_loop", "fetch_returned", "fetch_raised"}) =>
        /\ requests <= PageBound
        /\ page_count <= requests
        /\ pc = "fetch_returned" => (StopsLoop /\ events = served)
        /\ (pc = "fetch_loop" /\ requests > 0) => (~StopsLoop /\ events = served)

\* C10: the fetch always terminates and issues at most min(max(max_pages, 1),
\* 10) requests, whatever the caller's max_pages and the server's answers
\* (also when every page carries a rel="next" link); the loop stops at the
\* first of: no next link, an empty page, a page with an event older than the
\* lookback cutoff, the 422 of the pagination limit, the page bound; and the
\* events of all pages fetched until then are returned.
C10_TerminatesBounded == [](C10_Bounded) /\ <>(FetchLeft)

C10_Witness ==
    /\ pc = "fetch_returned"
    /\ args.max_pages = PageCap + 1
    /\ requests = PageCap
    /\ HasNextLink(response.link)
    /\ Len(events) > PageCap

(***************************************************************************)
(* Properties of compute_streaks.                                          *)
(***************************************************************************)
StreaksDone == pc = "streaks_done"

\* the active days of the argument, by the glossary: strictly positive count
ActiveSet == {d \in DOMAIN contributions_by_day : contributions_by_day[d] > 0}

\* the maximal runs of consecutive days of S, as <<first, last>>
Runs(S) ==
    {r \in S \X S :
        /\ r[1] <= r[2]
        /\ \A d \in r[1]..r[2] : d \in S
        /\ r[1] - 1 \notin S
        /\ r[2] + 1 \notin S}

RunLength(r) == r[2] - r[1] + 1

\* the sum of the strictly positive counts, day by day over the calendar
RECURSIVE PositiveSum(_, _)
PositiveSum(m, d) ==
    IF d > MaxDay THEN 0
    ELSE (IF d \in DOMAIN m /\ m[d] >= 1 THEN m[d] ELSE 0) + PositiveSum(m, d + 1)

C1Map == [d \in {1, 2, 3, 5} |-> 1]

C1Case == StreaksDone /\ contributions_by_day = C1Map /\ today = 3

C3_LongestGeCurrent ==
    StreaksDone => stats.longest_streak >= stats.current_streak

C3_Witness ==
    /\ StreaksDone
    /\ ActiveSet # {}
    /\ today < MaxOf(ActiveSet)
    /\ stats.current_streak >= 2
    /\ stats.longest_streak = stats.current_streak

\* C4: with latest the most recent active day: if today - latest is more than
\* one day the current streak is 0 with start and end absent; otherwise
\* current_end = latest, current_start is the first day of the maximal run
\* ending at latest and current_streak is their inclusive span.  Active days
\* {D-2, D-1} with today = D give 2; {D-3, D-2} with today = D give 0.
C4_CurrentStreak ==
    (StreaksDone /\ ActiveSet # {}) =>
        LET latest == MaxOf(ActiveSet)
            run == CHOOSE r \in Runs(ActiveSet) : r[2] = latest
        IN  /\ IF today - latest > 1
               THEN /\ stats.current_streak = 0
                    /\ stats.current_start = None
                    /\ stats.current_end = None
               ELSE /\ stats.current_end = Some(latest)
                    /\ stats.current_start = Some(run[1])
                    /\ stats.current_streak = latest - run[1] + 1
            /\ (ActiveSet = {today - 2, today - 1}) => stats.current_streak = 2
            /\ (ActiveSet = {today - 3, today - 2}) => stats.current_streak = 0

C4_Witness ==
    /\ StreaksDone
    /\ ActiveSet = {today - 2, today - 1}
    /\ stats.current_streak = 2
    /\ stats.current_start = Some(today - 2)

\* C6: longest_streak is the maximum length over all maximal runs of
\* consecutive active days, and longest_start..longest_end is the earliest
\* run of that length; a later run of equal length never replaces it.
C6_LongestEarliest ==
    (StreaksDone /\ ActiveSet # {}) =>
        LET runs == Runs(ActiveSet)
            best == MaxOf({RunLength(r) : r \in runs})
            first == MinOf({r[1] : r \in {q \in runs : RunLength(q) = best}})
        IN  /\ stats.longest_streak = best
            /\ stats.longest_start = Some(first)
            /\ stats.longest_end = Some(first + best - 1)

C6_Witness ==
    /\ StreaksDone
    /\ ActiveSet = {1, 2, 4, 5}
    /\ stats.longest_start = Some(1)
    /\ stats.longest_end = Some(2)

\* C7: total_contributions is the sum of the strictly positive counts only
\* (0 for a map without one); an entry with count <= 0 adds nothing and is
\* never a day of a reported streak.
C7_TotalPositiveOnly ==
    StreaksDone =>
        /\ stats.total_contributions = PositiveSum(contributions_by_day, 1)
        /\ \A d \in DOMAIN contributions_by_day :
              contributions_by_day[d] <= 0 =>
                /\ stats.current_start # None =>
                      ~(stats.current_start[1] <= d /\ d <= stats.current_end[1])
                /\ stats.longest_start # None =>
                      ~(stats.longest_start[1] <= d /\ d <= stats.longest_end[1])
        /\ ActiveSet = {} => (stats.longest_streak = 0 /\ stats.current_streak = 0)

C7_Witness ==
    /\ StreaksDone
    /\ \E d \in DOMAIN contributions_by_day : contributions_by_day[d] < 0
    /\ \E d \in DOMAIN contributions_by_day : contributions_by_day[d] = 0
    /\ stats.total_contributions >= 3

WellFormedRange(len, start, end) ==
    /\ (start # None) <=> (len > 0)
    /\ (end # None) <=> (len > 0)
    /\ len >= 0
    /\ start # None =>
          /\ start[1] <= end[1]
          /\ len = end[1] - start[1] + 1
          /\ \A d \in start[1]..end[1] : d \in ActiveSet

\* C9: the returned StreakStats is well formed: each start/end pair is present
\* exactly when its streak length is positive, and then start <= end, the
\* length is the inclusive span and every day of the span is an active day.
C9_WellFormed ==
    StreaksDone =>
        /\ WellFormedRange(stats.longest_streak, stats.longest_start, stats.longest_end)
        /\ WellFormedRange(stats.current_streak, stats.current_start, stats.current_end)

C9_Witness ==
    /\ StreaksDone
    /\ stats.current_streak >= 2
    /\ stats.longest_streak >= 2
    /\ stats.longest_start # stats.current_start

====
